---- MODULE Spec2Model ----
(***************************************************************************)
(* Fee estimation of the ticket buyer (aiticketbuyer/feeest.go).           *)
(*                                                                         *)
(* findClosestFeeWindows scans the difficulty windows returned by the      *)
(* chain server, resolves the stake difficulty of each one with a          *)
(* GetBlockHash / GetBlockHeader pair, sorts the candidates by their       *)
(* distance from the current difficulty and returns the fee of the first.  *)
(* findTicketFeeBlocks averages the fees of the most recent blocks.        *)
(*                                                                         *)
(* One step of the model is one round trip to the chain server together    *)
(* with all the code that runs up to the next round trip (or the return).  *)
(*                                                                         *)
(* Fee statistics arrive as floating point coin values.  They are          *)
(* modelled in units of a tenth of an atom (1e-9 coin), so that the        *)
(* rounding of hcutil.NewAmount is visible: 4 rounds to 0 atoms, 16 to 2.  *)
(* Indices of slices are the 0-based indices of the source.                *)
(***************************************************************************)
EXTENDS Integers, Sequences, FiniteSets

VARIABLES
    pc,          \* "idle", "GetBlockHash", "GetBlockHeader", "returned", "panicked"
    fn,          \* the function being executed, "none" when idle
    difficulty,  \* argument of findClosestFeeWindows
    useMedian,   \* argument of both functions
    BlocksToAvg, \* t.cfg.BlocksToAvg as read by findTicketFeeBlocks
    info,        \* result of TicketFeeInfo
    i,           \* loop index over info.FeeInfoWindows (0-based)
    blH,         \* block hash returned by GetBlockHash
    sortable,    \* the diffPeriodFees slice
    entered,     \* history: the indices of the windows appended to sortable
    retFee,      \* returned amount
    retErr,      \* returned error, "nil" when none
    log          \* the round trips made to the chain server, in order

vars == <<pc, fn, difficulty, useMedian, BlocksToAvg, info, i, blH, sortable, entered,
          retFee, retErr, log>>

---------------------------------------------------------------------------
(* Program constants and configuration *)

windowsToConsider == 20

zeroUint32 == 0

StakeDiffWindowSize == 144

---------------------------------------------------------------------------
(* Bounds of the model and the inputs drawn within them *)

MaxWindows == 3

MaxSortWindows == 8

MaxBlocks == 3

MaxBlocksToAvg == 5

\* A fee statistic that is not a number (no real fee is negative).
NaN == -1

\* Errors the chain server can answer with.
RPCErrors == {"ErrRPCTimeout", "ErrRPCNotFound"}

ErrNotEnoughWindows == "not enough windows to find mean fee available"

ErrInvalidAmount == "invalid coin amount"

\* The hash the chain server holds for the block at a height (0 is no hash).
HashAt(height) == 2 * height + 1

RECURSIVE SeqsUpTo(_, _)
SeqsUpTo(S, n) ==
    IF n = 0 THEN {<<>>}
    ELSE LET shorter == SeqsUpTo(S, n - 1)
         IN  shorter \cup {Append(s, x) : s \in {t \in shorter : Len(t) = n - 1}, x \in S}

Window(start, span, mean, median) ==
    [StartHeight |-> start, EndHeight |-> start + span, Mean |-> mean, Median |-> median]

\* Windows of the general scan: short, full and long spans, fees that are
\* zero, round to zero, differ between mean and median, or do not parse.
ScanWindows ==
    { Window(0, StakeDiffWindowSize - 1, 16, 24),
      Window(0, StakeDiffWindowSize - 1, 0, 0),
      Window(StakeDiffWindowSize, StakeDiffWindowSize, 16, 24),
      Window(StakeDiffWindowSize, StakeDiffWindowSize, 24, 0),
      Window(StakeDiffWindowSize, StakeDiffWindowSize, 4, 16),
      Window(StakeDiffWindowSize, StakeDiffWindowSize, NaN, 24),
      Window(2 * StakeDiffWindowSize, StakeDiffWindowSize + 1, 0, 36) }

ScanLists == SeqsUpTo(ScanWindows, MaxWindows)

ScanDifficulties == {1, 2, 3}

ScanTargets == {2}

\* Windows of the sort runs: window k is full and carries fees that name it,
\* except that the first one may be partial or without fee.
SortWindow(k) == Window(k * StakeDiffWindowSize, StakeDiffWindowSize, 100 * k + 10, 100 * k + 20)

SortLists ==
    { [k \in 1..n |-> IF k = 1 THEN first ELSE SortWindow(k)] :
        n \in 1..MaxSortWindows,
        first \in { SortWindow(1),
                    Window(0, StakeDiffWindowSize - 1, 110, 120),
                    Window(StakeDiffWindowSize, StakeDiffWindowSize, 0, 0) } }

SortDifficulties == {5, 6}

SortTargets == {5}

\* Replies longer than what was asked for: every window full, without fee.
LongLists ==
    { [k \in 1..n |-> Window(k * StakeDiffWindowSize, StakeDiffWindowSize, 0, 0)] :
        n \in 0..(windowsToConsider + 1) }

LongDifficulties == {7}

LongTargets == {7}

BlockStats ==
    { [Mean |-> 100, Median |-> 300],
      [Mean |-> 200, Median |-> 200],
      [Mean |-> 300, Median |-> 96],
      [Mean |-> NaN, Median |-> 104] }

BlockLists == SeqsUpTo(BlockStats, MaxBlocks)

---------------------------------------------------------------------------
(* hcutil.NewAmount: coins to atoms, rounding half away from zero; NaN and *)
(* the infinities are refused.  The fees drawn here are not negative.      *)

NewAmount(f) ==
    IF f = NaN THEN [amount |-> 0, err |-> ErrInvalidAmount]
    ELSE [amount |-> (f + 5) \div 10, err |-> "nil"]

---------------------------------------------------------------------------
(* diffPeriodFees and sort.Sort *)

diffPeriodFee(windowDiffAmt, diff, fee) ==
    [difficulty |-> windowDiffAmt, difference |-> diff, fee |-> fee]

\* p is a TLA+ sequence; a, b are the 0-based indices of the source.
LessReversed(p, a, b) == p[a + 1].difference > p[b + 1].difference

Less(p, a, b) == p[a + 1].difference < p[b + 1].difference

Swap(p, a, b) == [p EXCEPT ![a + 1] = p[b + 1], ![b + 1] = p[a + 1]]

RECURSIVE insertionInner(_, _, _)
insertionInner(p, j, a) ==
    IF j > a /\ Less(p, j, j - 1)
    THEN insertionInner(Swap(p, j, j - 1), j - 1, a)
    ELSE p

RECURSIVE insertionLoop(_, _, _, _)
insertionLoop(p, k, a, b) ==
    IF k < b THEN insertionLoop(insertionInner(p, k, a), k + 1, a, b) ELSE p

insertionSort(p, a, b) == insertionLoop(p, a + 1, a, b)

RECURSIVE shellPass(_, _, _)
shellPass(p, k, b) ==
    IF k < b
    THEN shellPass(IF Less(p, k, k - 6) THEN Swap(p, k, k - 6) ELSE p, k + 1, b)
    ELSE p

\* sort.Sort on a slice of at most 12 elements.  Up to Go 1.18 quickSort
\* makes one ShellSort pass with gap 6 and then an insertion sort; from
\* Go 1.19 pdqsort makes the insertion sort alone.  Longer slices take the
\* partitioning paths, which are not modelled.
SortImpls == {"quickSort", "pdqsort"}

Sort(p, impl) ==
    IF Len(p) <= 1 THEN p
    ELSE IF impl = "quickSort"
         THEN insertionSort(shellPass(p, 6, Len(p)), 0, Len(p))
         ELSE insertionSort(p, 0, Len(p))

---------------------------------------------------------------------------
(* The decisions of findClosestFeeWindows.  Where a property rests on a    *)
(* decision, the variant that a slip in that line would give is defined    *)
(* just before it (LessReversed, NoWindowsNever, SkipNever, ...).          *)

\* line 46: the count fits a uint32
wtcOneLess == windowsToConsider - 1

wtcUint32 == windowsToConsider

\* line 52
NoWindowsNever(inf) == FALSE

NoWindows(inf) == Len(inf.FeeInfoWindows) = 0

\* lines 63-64: the heights are uint32 and every window drawn here ends at or
\* after its start, so the difference does not wrap
Span(w) == w.EndHeight - w.StartHeight

\* line 65
SkipNever(idx, span) == FALSE

SkipFirstPartial(idx, span) == idx = 0 /\ span < StakeDiffWindowSize

\* line 69
StartHeightOf(w) == w.StartHeight

\* lines 71-73, 75-77, 87-89: the error goes to the caller as it is
PropagateNone(err) == "nil"

Propagate(err) == err

\* lines 81-86
SelectedStat(w, um) == IF ~um THEN w.Mean ELSE w.Median

\* line 93
NoFeeNever(fee) == FALSE

NoFee(fee) == fee = 0

\* lines 97-101
AbsDiffSigned(windowDiffAmt, d) == windowDiffAmt - d

AbsDiff(windowDiffAmt, d) ==
    LET diff == windowDiffAmt - d
    IN  IF diff < 0 THEN diff * (-1) ELSE diff

\* lines 114-118
ClosestFeeOrError(sorted) ==
    IF Len(sorted) = 0 THEN [fee |-> 0, err |-> ErrNotEnoughWindows]
    ELSE [fee |-> sorted[1].fee, err |-> "nil"]

ClosestFee(sorted) ==
    IF Len(sorted) = 0 THEN [fee |-> 0, err |-> "nil"]
    ELSE [fee |-> sorted[1].fee, err |-> "nil"]

---------------------------------------------------------------------------
(* Steps of findClosestFeeWindows.  A pointer argument of TicketFeeInfo is *)
(* logged as a set: empty for nil, the pointed value otherwise.            *)

Return(fee, err) ==
    /\ pc' = "returned"
    /\ retFee' = fee
    /\ retErr' = err

\* lines 61-67: the index of the first window from k on that is not skipped
RECURSIVE SkipFrom(_, _)
SkipFrom(ws, k) ==
    IF k < Len(ws) /\ SkipFirstPartial(k, Span(ws[k + 1]))
    THEN SkipFrom(ws, k + 1)
    ELSE k

\* The head of the loop at lines 61-67 with index k and slice srt: skip the
\* partial first window, leave to the next GetBlockHash, or fall out of the
\* loop into the sort and the return of lines 111-118.
LoopHead(inf, k, srt, ent) ==
    LET ws == inf.FeeInfoWindows
        next == SkipFrom(ws, k)
    IN  IF next < Len(ws)
        THEN /\ pc' = "GetBlockHash"
             /\ i' = next
             /\ sortable' = srt
             /\ entered' = ent
             /\ UNCHANGED <<retFee, retErr>>
        ELSE /\ i' = next
             /\ entered' = ent
             /\ \E impl \in SortImpls :
                    LET sorted == Sort(srt, impl)
                        res == ClosestFee(sorted)
                    IN  /\ sortable' = sorted
                        /\ Return(res.fee, res.err)

\* lines 44-67: the call, the TicketFeeInfo round trip and the entry of the loop
findClosestFeeWindows(Lists, Targets) ==
    /\ pc = "idle"
    /\ \E d \in Targets, um \in BOOLEAN,
          reply \in {[err |-> e, FeeInfoWindows |-> <<>>, FeeInfoBlocks |-> <<>>] : e \in RPCErrors}
                    \cup {[err |-> "nil", FeeInfoWindows |-> l, FeeInfoBlocks |-> <<>>] : l \in Lists} :
        /\ fn' = "findClosestFeeWindows"
        /\ difficulty' = d
        /\ useMedian' = um
        /\ info' = reply
        /\ log' = <<[op |-> "TicketFeeInfo", i |-> 0, arg |-> [blocks |-> {zeroUint32}, windows |-> {wtcUint32}],
                     err |-> reply.err, ret |-> Len(reply.FeeInfoWindows)]>>
        /\ IF reply.err /= "nil"
           THEN /\ Return(0, Propagate(reply.err))
                /\ UNCHANGED <<i, sortable, entered>>
           ELSE IF NoWindows(reply)
           THEN /\ Return(0, ErrNotEnoughWindows)
                /\ UNCHANGED <<i, sortable, entered>>
           ELSE LoopHead(reply, 0, <<>>, {})
    /\ UNCHANGED <<BlocksToAvg, blH>>

\* lines 69-73
GetBlockHash ==
    /\ pc = "GetBlockHash"
    /\ LET startHeight == StartHeightOf(info.FeeInfoWindows[i + 1])
       IN  \E reply \in {[err |-> e, hash |-> 0] : e \in RPCErrors}
                        \cup {[err |-> "nil", hash |-> HashAt(startHeight)]} :
            /\ log' = Append(log, [op |-> "GetBlockHash", i |-> i, arg |-> startHeight,
                                   err |-> reply.err, ret |-> reply.hash])
            /\ IF reply.err /= "nil"
               THEN /\ Return(0, Propagate(reply.err))
                    /\ UNCHANGED blH
               ELSE /\ pc' = "GetBlockHeader"
                    /\ blH' = reply.hash
                    /\ UNCHANGED <<retFee, retErr>>
    /\ UNCHANGED <<fn, difficulty, useMedian, BlocksToAvg, info, i, sortable, entered>>

\* lines 74-118: the header round trip, the rest of the loop body, and either
\* the next turn of the loop or the sort and the return
GetBlockHeader(Difficulties) ==
    /\ pc = "GetBlockHeader"
    /\ \E reply \in {[err |-> e, SBits |-> 0] : e \in RPCErrors}
                    \cup {[err |-> "nil", SBits |-> s] : s \in Difficulties} :
        /\ log' = Append(log, [op |-> "GetBlockHeader", i |-> i, arg |-> blH,
                               err |-> reply.err, ret |-> reply.SBits])
        /\ IF reply.err /= "nil"
           THEN /\ Return(0, Propagate(reply.err))
                /\ UNCHANGED <<i, sortable, entered>>
           ELSE LET windowDiffAmt == reply.SBits
                    parsed == NewAmount(SelectedStat(info.FeeInfoWindows[i + 1], useMedian))
                    fee == parsed.amount
                IN  IF parsed.err /= "nil"
                    THEN /\ Return(0, Propagate(parsed.err))
                         /\ UNCHANGED <<i, sortable, entered>>
                    ELSE IF NoFee(fee)
                    THEN LoopHead(info, i + 1, sortable, entered)
                    ELSE LoopHead(info, i + 1,
                                  Append(sortable,
                                         diffPeriodFee(windowDiffAmt,
                                                       AbsDiff(windowDiffAmt, difficulty), fee)),
                                  entered \cup {i})
    /\ UNCHANGED <<fn, difficulty, useMedian, BlocksToAvg, info, blH>>

---------------------------------------------------------------------------
(* findTicketFeeBlocks *)

\* line 124: the configured counts drawn here fit a uint32
btaUint32 == BlocksToAvg'

\* lines 130-141: the sum of the parsed fees, or the first parse error
RECURSIVE SumFees(_, _, _, _)
SumFees(blocks, k, um, sum) ==
    IF k >= Len(blocks) THEN [sum |-> sum, err |-> "nil"]
    ELSE LET tmp == NewAmount(SelectedStat(blocks[k + 1], um))
         IN  IF tmp.err /= "nil" THEN [sum |-> 0, err |-> tmp.err]
             ELSE SumFees(blocks, k + 1, um, sum + tmp.amount)

\* line 143: the sums drawn here are not negative, so the truncating division
\* of the source and \div agree
DivisorCount(bta, n) == n

Divisor(bta, n) == bta

\* lines 123-144, the whole call
findTicketFeeBlocks ==
    /\ pc = "idle"
    /\ \E bta \in 0..MaxBlocksToAvg, um \in BOOLEAN,
          reply \in {[err |-> e, FeeInfoWindows |-> <<>>, FeeInfoBlocks |-> <<>>] : e \in RPCErrors}
                    \cup {[err |-> "nil", FeeInfoWindows |-> <<>>, FeeInfoBlocks |-> l] :
                            l \in BlockLists} :
        /\ fn' = "findTicketFeeBlocks"
        /\ BlocksToAvg' = bta
        /\ useMedian' = um
        /\ info' = reply
        /\ log' = <<[op |-> "TicketFeeInfo", i |-> 0, arg |-> [blocks |-> {btaUint32}, windows |-> {}],
                     err |-> reply.err, ret |-> Len(reply.FeeInfoBlocks)]>>
        /\ IF reply.err /= "nil"
           THEN Return(0, Propagate(reply.err))
           ELSE LET s == SumFees(reply.FeeInfoBlocks, 0, um, 0)
                    by == Divisor(bta, Len(reply.FeeInfoBlocks))
                IN  IF s.err /= "nil"
                    THEN Return(0, Propagate(s.err))
                    ELSE IF by = 0
                    THEN \* integer divide by zero: the runtime panics
                         /\ pc' = "panicked"
                         /\ UNCHANGED <<retFee, retErr>>
                    ELSE Return(s.sum \div by, "nil")
    /\ UNCHANGED <<difficulty, i, blH, sortable, entered>>

---------------------------------------------------------------------------
(* The caller takes the result; nothing of a call outlives it. *)

Init ==
    /\ pc = "idle"
    /\ fn = "none"
    /\ difficulty = 0
    /\ useMedian = FALSE
    /\ BlocksToAvg = 0
    /\ info = [err |-> "nil", FeeInfoWindows |-> <<>>, FeeInfoBlocks |-> <<>>]
    /\ i = 0
    /\ blH = 0
    /\ sortable = <<>>
    /\ entered = {}
    /\ retFee = 0
    /\ retErr = "nil"
    /\ log = <<>>

Done ==
    /\ pc = "returned"
    /\ pc' = "idle"
    /\ fn' = "none"
    /\ difficulty' = 0
    /\ useMedian' = FALSE
    /\ BlocksToAvg' = 0
    /\ info' = [err |-> "nil", FeeInfoWindows |-> <<>>, FeeInfoBlocks |-> <<>>]
    /\ i' = 0
    /\ blH' = 0
    /\ sortable' = <<>>
    /\ entered' = {}
    /\ retFee' = 0
    /\ retErr' = "nil"
    /\ log' = <<>>

Next ==
    \/ findClosestFeeWindows(ScanLists, ScanTargets)
    \/ GetBlockHash
    \/ GetBlockHeader(ScanDifficulties)
    \/ findTicketFeeBlocks
    \/ Done

Spec == Init /\ [][Next]_vars

NextSort ==
    \/ findClosestFeeWindows(SortLists, SortTargets)
    \/ GetBlockHash
    \/ GetBlockHeader(SortDifficulties)
    \/ findTicketFeeBlocks
    \/ Done

SpecSort == Init /\ [][NextSort]_vars

NextLong ==
    \/ findClosestFeeWindows(LongLists, LongTargets)
    \/ GetBlockHash
    \/ GetBlockHeader(LongDifficulties)
    \/ findTicketFeeBlocks
    \/ Done

SpecLong == Init /\ [][NextLong]_vars

---------------------------------------------------------------------------
(* What the properties speak about, read from the reply and from the log   *)
(* of round trips rather than from the slice the code builds.              *)

InClosest == fn = "findClosestFeeWindows"

InBlocks == fn = "findTicketFeeBlocks"

Finished == pc = "returned"

Windows == info.FeeInfoWindows

WindowIdx == 0..(Len(Windows) - 1)

QueryOk == info.err = "nil"

AllLookupsOk == \A n \in DOMAIN log : log[n].err = "nil"

Calls(name) == {n \in DOMAIN log : log[n].op = name}

Lookups == Calls("GetBlockHash") \cup Calls("GetBlockHeader")

PartialFirst(k) ==
    k = 0 /\ Windows[k + 1].EndHeight - Windows[k + 1].StartHeight < StakeDiffWindowSize

Stat(k) == IF useMedian THEN Windows[k + 1].Median ELSE Windows[k + 1].Mean

Parses(k) == Stat(k) /= NaN

Fee(k) == NewAmount(Stat(k)).amount

AllParse == \A k \in WindowIdx : PartialFirst(k) \/ Parses(k)

Resolved(k) ==
    \E n \in Calls("GetBlockHeader") : log[n].i = k /\ log[n].err = "nil"

Diff(k) ==
    LET n == CHOOSE m \in Calls("GetBlockHeader") : log[m].i = k /\ log[m].err = "nil"
        d == log[n].ret - difficulty
    IN  IF d < 0 THEN 0 - d ELSE d

Survivors ==
    {k \in WindowIdx : ~PartialFirst(k) /\ Resolved(k) /\ Parses(k) /\ Fee(k) /= 0}

Closest == {k \in Survivors : \A m \in Survivors : Diff(k) <= Diff(m)}

Earliest(S) == CHOOSE k \in S : \A m \in S : k <= m

\* The scan ran to its end and returned a result.
Scanned == InClosest /\ Finished /\ QueryOk /\ Len(Windows) > 0 /\ AllLookupsOk /\ AllParse

---------------------------------------------------------------------------
\* C1 (as stated): with all lookups succeeding and a surviving window, the
\* fee returned is that of the EARLIEST surviving window among those of
\* minimal distance from the target difficulty.
C1_EarliestClosestFee ==
    (Scanned /\ Survivors /= {}) => (retErr = "nil" /\ retFee = Fee(Earliest(Closest)))

\* C1 (amended): with all lookups and parses succeeding and a surviving
\* window, the fee returned is the selected fee of some surviving window of
\* minimal distance from the target difficulty.
C1_ClosestFee ==
    (Scanned /\ Survivors /= {}) =>
        (retErr = "nil" /\ \E k \in Closest : retFee = Fee(k))

\* C1 witness: a finished scan in which two surviving windows tie for the
\* minimal distance with different fees, and a farther window came first.
C1_Witness ==
    /\ Scanned
    /\ Cardinality(Closest) >= 2
    /\ \E k \in Closest, m \in Closest : Fee(k) /= Fee(m)
    /\ \E k \in Survivors \ Closest : k < Earliest(Closest)
    /\ \E k \in Closest : retFee = Fee(k)

\* C2: a non-empty reply in which every window is the skipped partial first
\* window or has a selected fee of zero gives fee 0 and no error.
C2_NoSignalIsZeroNoError ==
    ( /\ InClosest /\ Finished /\ QueryOk /\ Len(Windows) > 0 /\ AllLookupsOk
      /\ \A k \in WindowIdx : PartialFirst(k) \/ (Parses(k) /\ Fee(k) = 0) )
    => (retFee = 0 /\ retErr = "nil")

\* C2 witness: the partial first window was skipped, a later window without
\* fee was looked up, and the call returned (0, nil).
C2_Witness ==
    /\ InClosest /\ Finished /\ QueryOk /\ AllLookupsOk
    /\ Len(Windows) >= 2
    /\ PartialFirst(0)
    /\ \A k \in WindowIdx : PartialFirst(k) \/ (Parses(k) /\ Fee(k) = 0)
    /\ \E k \in WindowIdx : Resolved(k) /\ Stat(k) > 0
    /\ retFee = 0 /\ retErr = "nil"

\* C3: an empty window list ends the call at once with the "not enough
\* windows" error, which is none of the chain server's errors, with fee 0,
\* and without any GetBlockHash or GetBlockHeader round trip.
C3_EmptyListIsAnError ==
    (InClosest /\ QueryOk /\ Len(Windows) = 0) =>
        /\ Finished
        /\ retErr = ErrNotEnoughWindows
        /\ retErr \notin RPCErrors
        /\ retErr /= "nil"
        /\ retFee = 0
        /\ Lookups = {}

\* C3 witness: a call that got an empty list without error.
C3_Witness ==
    InClosest /\ Finished /\ QueryOk /\ Len(Windows) = 0 /\ Len(log) = 1

\* C4: a failed GetBlockHash or GetBlockHeader is the last round trip of the
\* call, which returns that very error with fee 0.
C4_LookupFailureAborts ==
    InClosest =>
        \A n \in Lookups :
            log[n].err /= "nil" =>
                /\ n = Len(log)
                /\ Finished
                /\ retErr = log[n].err
                /\ retFee = 0

\* C4 witness: a lookup fails after an earlier window had entered the
\* candidates.
C4_Witness ==
    /\ InClosest /\ Finished
    /\ entered /= {}
    /\ \E n \in Lookups : log[n].err /= "nil" /\ \A k \in entered : k < log[n].i
    /\ retFee = 0 /\ retErr \in RPCErrors

---------------------------------------------------------------------------
(* findTicketFeeBlocks, read from the reply *)

Blocks == info.FeeInfoBlocks

BlockStat(b) == IF useMedian THEN b.Median ELSE b.Mean

BlocksParse == \A n \in DOMAIN Blocks : BlockStat(Blocks[n]) /= NaN

BlockFees == [n \in DOMAIN Blocks |-> NewAmount(BlockStat(Blocks[n])).amount]

RECURSIVE Total(_)
Total(fees) == IF fees = <<>> THEN 0 ELSE fees[1] + Total(Tail(fees))

\* C5: when the query and every parse succeed, the result is the sum of the
\* selected fees of the blocks returned, divided by the configured
\* BlocksToAvg and not by their number: [10, 20, 30] over 3 gives 20, and
\* three fees that sum to 60 over 5 give 12.
C5_AverageByConfiguredCount ==
    (InBlocks /\ Finished /\ QueryOk /\ BlocksParse /\ BlocksToAvg > 0) =>
        /\ retErr = "nil"
        /\ retFee = Total(BlockFees) \div BlocksToAvg
        /\ (BlockFees = <<10, 20, 30>> /\ BlocksToAvg = 3) => retFee = 20
        /\ (Len(Blocks) = 3 /\ Total(BlockFees) = 60 /\ BlocksToAvg = 5) => retFee = 12

\* C5 witness: three stats that sum to 60, averaged over a configured 5.
C5_Witness ==
    /\ InBlocks /\ Finished /\ QueryOk /\ BlocksParse
    /\ Len(Blocks) = 3 /\ Total(BlockFees) = 60 /\ BlocksToAvg = 5
    /\ retFee = 12 /\ retErr = "nil"

\* C6 (as stated): whenever the reply holds a window whose difficulty equals
\* the target and all lookups succeed, the fee returned is the selected fee
\* of a window of difference 0.
C6_ExactMatchInReplyWins ==
    (Scanned /\ \E k \in WindowIdx : Resolved(k) /\ Diff(k) = 0) =>
        \E k \in WindowIdx : Resolved(k) /\ Diff(k) = 0 /\ retFee = Fee(k)

\* C6 (amended): whenever a window that survives the filtering has a
\* difficulty equal to the target and all lookups and parses succeed, the
\* fee returned is the selected fee of a surviving window of difference 0.
C6_ExactMatchAmongSurvivorsWins ==
    (Scanned /\ \E k \in Survivors : Diff(k) = 0) =>
        (retErr = "nil" /\ \E k \in Survivors : Diff(k) = 0 /\ retFee = Fee(k))

\* C6 witness: an exact match is returned although a window of nonzero
\* difference with another fee came before it.
C6_Witness ==
    /\ Scanned
    /\ \E k \in Survivors, m \in Survivors :
          /\ Diff(k) = 0 /\ Diff(m) > 0 /\ m < k /\ Fee(m) /= Fee(k)
          /\ retFee = Fee(k)

\* C7 (as stated): every window that enters the candidate set has a span
\* equal to StakeDiffWindowSize and a selected fee above zero.
C7_CandidatesFullAndPaid ==
    InClosest =>
        \A k \in entered :
            /\ Windows[k + 1].EndHeight - Windows[k + 1].StartHeight = StakeDiffWindowSize
            /\ Fee(k) > 0

\* C7 (amended): every window that enters the candidate set has a selected
\* fee above zero and, when it is the first window of the reply, a span of
\* at least StakeDiffWindowSize; the span of a later window is not looked at.
C7_CandidatesPaidFirstNotPartial ==
    InClosest =>
        /\ \A k \in entered :
              /\ Fee(k) > 0
              /\ k = 0 =>
                    Windows[k + 1].EndHeight - Windows[k + 1].StartHeight >= StakeDiffWindowSize
        /\ Len(sortable) = Cardinality(entered)
        /\ \A n \in DOMAIN sortable : sortable[n].fee > 0

\* C7 witness: a later window of short span is among the candidates.
C7_Witness ==
    /\ InClosest
    /\ \E k \in entered :
          /\ k > 0
          /\ Windows[k + 1].EndHeight - Windows[k + 1].StartHeight < StakeDiffWindowSize

\* C8 (as stated): one TicketFeeInfo query for windowsToConsider windows and
\* zero blocks, then at most windowsToConsider GetBlockHash and at most
\* windowsToConsider GetBlockHeader round trips, whatever the reply.
C8_AtMostWindowsToConsiderLookups ==
    InClosest =>
        /\ Calls("TicketFeeInfo") = {1}
        /\ log[1].arg = [blocks |-> {0}, windows |-> {20}]
        /\ Cardinality(Calls("GetBlockHash")) <= 20
        /\ Cardinality(Calls("GetBlockHeader")) <= 20

\* C8 (amended): one TicketFeeInfo query for windowsToConsider windows and
\* zero blocks, then at most one GetBlockHash and one GetBlockHeader round
\* trip per window of the reply: at most windowsToConsider of each only
\* when the reply holds no more windows than were asked for.
C8_AtMostOneLookupPerWindow ==
    InClosest =>
        /\ Calls("TicketFeeInfo") = {1}
        /\ log[1].arg = [blocks |-> {0}, windows |-> {20}]
        /\ Cardinality(Calls("GetBlockHash")) <= Len(Windows)
        /\ Cardinality(Calls("GetBlockHeader")) <= Cardinality(Calls("GetBlockHash"))
        /\ Len(Windows) <= 20 =>
              /\ Cardinality(Calls("GetBlockHash")) <= 20
              /\ Cardinality(Calls("GetBlockHeader")) <= 20

\* C8 witness: a reply of exactly windowsToConsider windows, each looked up.
C8_Witness ==
    /\ InClosest /\ Finished
    /\ Len(Windows) = 20
    /\ Cardinality(Calls("GetBlockHash")) = 20
    /\ Cardinality(Calls("GetBlockHeader")) = 20

\* The windows the scan has gone past.
Passed == {k \in WindowIdx : k < i}

\* C9: the windows are taken in the order of the reply; each one but the
\* skipped partial first window costs a GetBlockHash of its start height
\* and then a GetBlockHeader of the hash returned, whatever its fee; a
\* failed lookup of a window without fee ends the call with the error; the
\* skipped partial first window costs no lookup.
C9_LookupsBeforeFeeFilter ==
    InClosest =>
        /\ \A n \in Calls("GetBlockHash") :
              /\ log[n].arg = Windows[log[n].i + 1].StartHeight
              /\ ~PartialFirst(log[n].i)
              /\ n = 2 \/ ( /\ log[n - 1].op = "GetBlockHeader"
                            /\ log[n - 1].err = "nil"
                            /\ log[n - 1].i < log[n].i )
        /\ \A n \in Calls("GetBlockHeader") :
              /\ log[n - 1].op = "GetBlockHash"
              /\ log[n - 1].err = "nil"
              /\ log[n - 1].i = log[n].i
              /\ log[n].arg = log[n - 1].ret
        /\ \A k \in Passed :
              IF PartialFirst(k)
              THEN \A n \in Lookups : log[n].i /= k
              ELSE /\ \E n \in Calls("GetBlockHash") : log[n].i = k /\ log[n].err = "nil"
                   /\ Resolved(k)
        /\ \A n \in Lookups :
              (log[n].err /= "nil" /\ Parses(log[n].i) /\ Fee(log[n].i) = 0) =>
                  (Finished /\ retErr = log[n].err)

\* C9 witness: the partial first window was skipped without a lookup, a
\* window without fee was looked up in full, and the lookup of a second
\* window without fee failed and ended the call.
C9_Witness ==
    /\ InClosest /\ Finished
    /\ Len(Windows) >= 3 /\ PartialFirst(0)
    /\ \A n \in Lookups : log[n].i /= 0
    /\ Resolved(1) /\ Fee(1) = 0
    /\ \E n \in Lookups : log[n].i = 2 /\ log[n].err /= "nil" /\ Parses(2) /\ Fee(2) = 0
    /\ retErr \in RPCErrors

\* C10: findTicketFeeBlocks never ends in a fault, BlocksToAvg = 0 included.
C10_NeverFaults == pc /= "panicked"

====
